---- MODULE Spec2Model ----
(***************************************************************************)
(* Model of Predictor.predict (src/predict.py): the SVG to PNG conversion   *)
(* call, the input bounds declared on its parameters, the progress task it  *)
(* advances, the files it opens and the temporary path it writes to.        *)
(*                                                                          *)
(* Strings are sequences of ASCII code points, so that str.lower() is a     *)
(* computation.  An optional value is None (<<>>) or Some(v) (<<v>>).       *)
(* scale is a float in the source; it is counted here in hundredths.        *)
(***************************************************************************)
EXTENDS Integers, Sequences, FiniteSets, TLC

\* ---------------------------------------------------------------- bounds
NumCalls == 2
NumPaths == 2
MaxSize == 2

\* ------------------------------------------------------ program constants
WidthMin == 1
WidthMax == 10000
HeightMin == 1
HeightMax == 10000
ScaleMin == 10
ScaleMax == 1000
DpiDefault == 96
DpiMin == 72
DpiMax == 600
Total == 100

\* ----------------------------------------------------------------- values
None == <<>>
Some(v) == <<v>>
Val(o) == o[1]

Calls == 1..NumCalls
Paths == 1..NumPaths
Sizes == 0..MaxSize

\* "transparent"
transparent == <<116, 114, 97, 110, 115, 112, 97, 114, 101, 110, 116>>

\* "transparent", "TRANSPARENT", "Transparent", "", "#FFFFFF", "#ffffff",
\* "white", "transparen", "transparent "
BackgroundValues ==
    { transparent,
      <<84, 82, 65, 78, 83, 80, 65, 82, 69, 78, 84>>,
      <<84, 114, 97, 110, 115, 112, 97, 114, 101, 110, 116>>,
      <<>>,
      <<35, 70, 70, 70, 70, 70, 70>>,
      <<35, 102, 102, 102, 102, 102, 102>>,
      <<119, 104, 105, 116, 101>>,
      <<116, 114, 97, 110, 115, 112, 97, 114, 101, 110>>,
      <<116, 114, 97, 110, 115, 112, 97, 114, 101, 110, 116, 32>> }

WidthValues == { None, Some(WidthMin - 1), Some(WidthMin), Some(500),
                 Some(WidthMax), Some(WidthMax + 1) }
HeightValues == { None, Some(HeightMin - 1), Some(HeightMin), Some(300),
                  Some(HeightMax), Some(HeightMax + 1) }
ScaleValues == { None, Some(ScaleMin - 1), Some(ScaleMin), Some(200),
                 Some(ScaleMax), Some(ScaleMax + 1) }
DpiValues == { DpiMin - 1, DpiMin, DpiDefault, DpiMax, DpiMax + 1 }

Requests ==
    [ width : WidthValues, height : HeightValues, scale : ScaleValues,
      dpi : DpiValues, background_color : BackgroundValues ]

\* The requests two overlapping calls are made with.
ConcurrentRequests ==
    [ width : {None}, height : {None}, scale : {None},
      dpi : {DpiMin - 1, DpiDefault}, background_color : {transparent} ]

NoRequest == [ absent |-> TRUE ]

VARIABLES
    request,        \* the arguments of each call
    pc,             \* each call's position in predict
    completed,      \* main_task.completed of the call's Progress
    f,              \* the input file handle: "unopened", "open", "closed"
    svg_size,       \* len(svg_data)
    background,     \* None, or Some(background_color)
    convert_params, \* the keyword arguments of cairosvg.svg2png
    rasterCalls,    \* the number of times cairosvg.svg2png was invoked
    png_data,       \* "unset" or "bytes"
    img,            \* "unset" or "image"
    output_path,    \* None or Some(path)
    out,            \* the output file handle: "unopened", "open", "closed"
    created,        \* None, or Some(whether output_path was absent on open)
    output_size,    \* os.path.getsize(output_path)
    size_line,      \* None, or Some(whether the size-change line was printed)
    result,         \* None, <<"raise", site>> or <<"return", path>>
    files           \* the temporary directory: path -> 0 (absent) or writer

vars == << request, pc, completed, f, svg_size, background, convert_params,
           rasterCalls, png_data, img, output_path, out, created,
           output_size, size_line, result, files >>

\* ------------------------------------------------------- pure computations

\* Bounded with an exclusive lower bound (gt in place of ge).
BoundedStrict(o, ge, le) == o = None \/ (Val(o) > ge /\ Val(o) <= le)

\* One bound pair of Input(ge=..., le=...); an absent optional is accepted.
Bounded(o, ge, le) == o = None \/ (Val(o) >= ge /\ Val(o) <= le)

InRange(r) ==
    /\ Bounded(r.width, WidthMin, WidthMax)
    /\ Bounded(r.height, HeightMin, HeightMax)
    /\ Bounded(r.scale, ScaleMin, ScaleMax)
    /\ Bounded(Some(r.dpi), DpiMin, DpiMax)

LowerChar(ch) == IF ch \in 65..90 THEN ch + 32 ELSE ch

Lower(s) == [i \in DOMAIN s |-> LowerChar(s[i])]

\* background = None if background_color.lower() == "transparent" else ...
ParseBackground(background_color) ==
    IF Lower(background_color) = transparent THEN None
    ELSE Some(background_color)

\* Python truthiness of background: None and "" are false.
Truthy(b) == b # None /\ Val(b) # <<>>

EmptyParams == <<>>

\* BaseParams that passes the default dpi, not the call's.
BaseParamsDefault(dpi) == "dpi" :> DpiDefault

BaseParams(dpi) == "dpi" :> dpi

BackgroundParams(b) ==
    IF Truthy(b) THEN "background_color" :> Val(b) ELSE EmptyParams

\* SizingParams with the elif turned into an if: no precedence of scale.
SizingParamsNoPrecedence(width, height, scale) ==
    (IF scale # None THEN "scale" :> Val(scale) ELSE EmptyParams)
    @@ (IF width # None THEN "output_width" :> Val(width) ELSE EmptyParams)
    @@ (IF height # None THEN "output_height" :> Val(height)
        ELSE EmptyParams)

SizingParams(width, height, scale) ==
    IF scale # None THEN "scale" :> Val(scale)
    ELSE IF width # None \/ height # None
         THEN (IF width # None THEN "output_width" :> Val(width)
               ELSE EmptyParams)
              @@ (IF height # None THEN "output_height" :> Val(height)
                  ELSE EmptyParams)
         ELSE EmptyParams

BuildParams(r, b) ==
    BaseParams(r.dpi) @@ BackgroundParams(b)
        @@ SizingParams(r.width, r.height, r.scale)

\* a / b as an exact fraction, or the exception Python raises
Divide(a, b) ==
    IF b = 0 THEN <<"ZeroDivisionError">> ELSE <<"float", a, b>>

\* CompressionRatio without the output_size < svg_size guard.
CompressionRatioUnguarded(osize, ssize) ==
    LET q == Divide(osize, ssize)
    IN IF q[1] = "float" THEN <<"float", (q[3] - q[2]) * 100, q[3]>>
       ELSE q

\* (1 - output_size / svg_size) * 100 if output_size < svg_size else 0
CompressionRatio(osize, ssize) ==
    IF osize < ssize
    THEN LET q == Divide(osize, ssize)
         IN IF q[1] = "float" THEN <<"float", (q[3] - q[2]) * 100, q[3]>>
            ELSE q
    ELSE <<"float", 0, 1>>

\* compression_ratio > 0
Positive(x) == x[2] > 0

\* ------------------------------------------------------------------- Init
InitLocals ==
    /\ pc = [c \in Calls |-> "pending"]
    /\ completed = [c \in Calls |-> 0]
    /\ f = [c \in Calls |-> "unopened"]
    /\ svg_size = [c \in Calls |-> None]
    /\ background = [c \in Calls |-> None]
    /\ convert_params = [c \in Calls |-> EmptyParams]
    /\ rasterCalls = [c \in Calls |-> 0]
    /\ png_data = [c \in Calls |-> "unset"]
    /\ img = [c \in Calls |-> "unset"]
    /\ output_path = [c \in Calls |-> None]
    /\ out = [c \in Calls |-> "unopened"]
    /\ created = [c \in Calls |-> None]
    /\ output_size = [c \in Calls |-> None]
    /\ size_line = [c \in Calls |-> None]
    /\ result = [c \in Calls |-> None]
    /\ files = [p \in Paths |-> 0]

\* One call at a time, with any arguments.
Init ==
    /\ \E r \in Requests :
          request = [c \in Calls |-> IF c = 1 THEN r ELSE NoRequest]
    /\ InitLocals

\* Every call is made, and the calls overlap.
InitConcurrent ==
    /\ request \in [Calls -> ConcurrentRequests]
    /\ InitLocals

\* ---------------------------------------------------------------- helpers
Goto(c, label) ==
    /\ pc' = [pc EXCEPT ![c] = label]
    /\ result' = result

Raise(c, site) ==
    /\ pc' = [pc EXCEPT ![c] = "raised"]
    /\ result' = [result EXCEPT ![c] = <<"raise", site>>]

Advance(c, n) == completed' = [completed EXCEPT ![c] = @ + n]

\* ---------------------------------------------------------------- actions

\* The harness checks the arguments against the declared bounds.
Validate(c) ==
    /\ pc[c] = "pending"
    /\ request[c] # NoRequest
    /\ IF InRange(request[c])
       THEN Goto(c, "add_task")
       ELSE /\ pc' = [pc EXCEPT ![c] = "rejected"]
            /\ result' = [result EXCEPT ![c] = <<"raise", "Input">>]
    /\ UNCHANGED << request, completed, f, svg_size, background,
                    convert_params, rasterCalls, png_data, img, output_path,
                    out, created, output_size, size_line, files >>

\* progress.add_task(total=100); Step 1: advance=15
BeginRead(c) ==
    /\ pc[c] = "add_task"
    /\ Advance(c, 15)
    /\ Goto(c, "open")
    /\ UNCHANGED << request, f, svg_size, background, convert_params,
                    rasterCalls, png_data, img, output_path, out, created,
                    output_size, size_line, files >>

\* OpenInput that swallows the failure and carries on.
OpenInputSwallow(c) ==
    /\ pc[c] = "open"
    /\ \E ok \in BOOLEAN :
          IF ok
          THEN f' = [f EXCEPT ![c] = "open"] /\ Goto(c, "read")
          ELSE f' = f /\ Goto(c, "parse")
    /\ UNCHANGED << request, completed, svg_size, background, convert_params,
                    rasterCalls, png_data, img, output_path, out, created,
                    output_size, size_line, files >>

\* with open(svg_file, 'rb') as f
OpenInput(c) ==
    /\ pc[c] = "open"
    /\ \E ok \in BOOLEAN :
          IF ok
          THEN f' = [f EXCEPT ![c] = "open"] /\ Goto(c, "read")
          ELSE f' = f /\ Raise(c, "open")
    /\ UNCHANGED << request, completed, svg_size, background, convert_params,
                    rasterCalls, png_data, img, output_path, out, created,
                    output_size, size_line, files >>

\* ReadInput without the with block: a failed read leaves f open.
ReadInputLeak(c) ==
    /\ pc[c] = "read"
    /\ \E ok \in BOOLEAN :
          IF ok
          THEN /\ \E n \in Sizes : svg_size' = [svg_size EXCEPT ![c] = Some(n)]
               /\ Goto(c, "close")
          ELSE /\ svg_size' = svg_size
               /\ Raise(c, "read")
    /\ UNCHANGED << request, completed, f, background, convert_params,
                    rasterCalls, png_data, img, output_path, out, created,
                    output_size, size_line, files >>

\* svg_data = f.read(); an exception leaves the with block, which closes f
ReadInput(c) ==
    /\ pc[c] = "read"
    /\ \E ok \in BOOLEAN :
          IF ok
          THEN /\ \E n \in Sizes : svg_size' = [svg_size EXCEPT ![c] = Some(n)]
               /\ f' = f
               /\ Goto(c, "close")
          ELSE /\ svg_size' = svg_size
               /\ f' = [f EXCEPT ![c] = "closed"]
               /\ Raise(c, "read")
    /\ UNCHANGED << request, completed, background, convert_params,
                    rasterCalls, png_data, img, output_path, out, created,
                    output_size, size_line, files >>

\* the end of the with block
CloseInput(c) ==
    /\ pc[c] = "close"
    /\ f' = [f EXCEPT ![c] = "closed"]
    /\ Goto(c, "parse")
    /\ UNCHANGED << request, completed, svg_size, background, convert_params,
                    rasterCalls, png_data, img, output_path, out, created,
                    output_size, size_line, files >>

\* Step 2: advance=10; parse the background colour
Parse(c) ==
    /\ pc[c] = "parse"
    /\ Advance(c, 10)
    /\ background' = [background EXCEPT
                        ![c] = ParseBackground(request[c].background_color)]
    /\ Goto(c, "configure")
    /\ UNCHANGED << request, f, svg_size, convert_params, rasterCalls,
                    png_data, img, output_path, out, created, output_size,
                    size_line, files >>

\* Step 3: advance=15; build convert_params
Configure(c) ==
    /\ pc[c] = "configure"
    /\ Advance(c, 15)
    /\ convert_params' = [convert_params EXCEPT
                            ![c] = BuildParams(request[c], background[c])]
    /\ Goto(c, "render_start")
    /\ UNCHANGED << request, f, svg_size, background, rasterCalls, png_data,
                    img, output_path, out, created, output_size, size_line,
                    files >>

\* Step 4: advance=5
RenderStart(c) ==
    /\ pc[c] = "render_start"
    /\ Advance(c, 5)
    /\ Goto(c, "render")
    /\ UNCHANGED << request, f, svg_size, background, convert_params,
                    rasterCalls, png_data, img, output_path, out, created,
                    output_size, size_line, files >>

\* Render that tries a failed rasterization a second time.
RenderRetry(c) ==
    /\ pc[c] = "render"
    /\ rasterCalls' = [rasterCalls EXCEPT ![c] = @ + 1]
    /\ \E ok \in BOOLEAN :
          IF ok
          THEN /\ png_data' = [png_data EXCEPT ![c] = "bytes"]
               /\ Advance(c, 30)
               /\ Goto(c, "post")
          ELSE /\ png_data' = png_data
               /\ completed' = completed
               /\ IF rasterCalls[c] = 0
                  THEN UNCHANGED << pc, result >>
                  ELSE Raise(c, "svg2png")
    /\ UNCHANGED << request, f, svg_size, background, convert_params, img,
                    output_path, out, created, output_size, size_line,
                    files >>

\* try: png_data = cairosvg.svg2png(...); advance=30  except: raise
Render(c) ==
    /\ pc[c] = "render"
    /\ rasterCalls' = [rasterCalls EXCEPT ![c] = @ + 1]
    /\ \E ok \in BOOLEAN :
          IF ok
          THEN /\ png_data' = [png_data EXCEPT ![c] = "bytes"]
               /\ Advance(c, 30)
               /\ Goto(c, "post")
          ELSE /\ png_data' = png_data
               /\ completed' = completed
               /\ Raise(c, "svg2png")
    /\ UNCHANGED << request, f, svg_size, background, convert_params, img,
                    output_path, out, created, output_size, size_line,
                    files >>

\* Step 5: advance=15; img = Image.open(io.BytesIO(png_data))
PostProcess(c) ==
    /\ pc[c] = "post"
    /\ Advance(c, 15)
    /\ \E ok \in BOOLEAN :
          IF ok
          THEN img' = [img EXCEPT ![c] = "image"] /\ Goto(c, "save_start")
          ELSE img' = img /\ Raise(c, "Image.open")
    /\ UNCHANGED << request, f, svg_size, background, convert_params,
                    rasterCalls, png_data, output_path, out, created,
                    output_size, size_line, files >>

\* Step 6: advance=10
SaveStart(c) ==
    /\ pc[c] = "save_start"
    /\ Advance(c, 10)
    /\ Goto(c, "mktemp")
    /\ UNCHANGED << request, f, svg_size, background, convert_params,
                    rasterCalls, png_data, img, output_path, out, created,
                    output_size, size_line, files >>

\* output_path = Path(tempfile.mktemp(suffix=".png")): a name that does not
\* exist at the time of the call; the file is not created.
Mktemp(c) ==
    /\ pc[c] = "mktemp"
    /\ IF \E p \in Paths : files[p] = 0
       THEN /\ \E p \in Paths :
                  /\ files[p] = 0
                  /\ output_path' = [output_path EXCEPT ![c] = Some(p)]
            /\ Goto(c, "save_open")
       ELSE /\ output_path' = output_path
            /\ Raise(c, "mktemp")
    /\ UNCHANGED << request, completed, f, svg_size, background,
                    convert_params, rasterCalls, png_data, img, out, created,
                    output_size, size_line, files >>

\* img.save(output_path, "PNG", optimize=True): open the file for writing
SaveOpen(c) ==
    /\ pc[c] = "save_open"
    /\ \E ok \in BOOLEAN :
          IF ok
          THEN /\ created' = [created EXCEPT
                                ![c] = Some(files[Val(output_path[c])] = 0)]
               /\ files' = [files EXCEPT ![Val(output_path[c])] = c]
               /\ out' = [out EXCEPT ![c] = "open"]
               /\ Goto(c, "save_write")
          ELSE /\ UNCHANGED << created, files, out >>
               /\ Raise(c, "img.save")
    /\ UNCHANGED << request, completed, f, svg_size, background,
                    convert_params, rasterCalls, png_data, img, output_path,
                    output_size, size_line >>

\* img.save: encode, write and close; a failed save closes the file and may
\* leave it behind or remove it
SaveWrite(c) ==
    /\ pc[c] = "save_write"
    /\ out' = [out EXCEPT ![c] = "closed"]
    /\ \E ok \in BOOLEAN :
          IF ok
          THEN files' = files /\ Goto(c, "getsize")
          ELSE /\ \E keep \in BOOLEAN :
                     files' = IF keep THEN files
                              ELSE [files EXCEPT ![Val(output_path[c])] = 0]
               /\ Raise(c, "img.save")
    /\ UNCHANGED << request, completed, f, svg_size, background,
                    convert_params, rasterCalls, png_data, img, output_path,
                    created, output_size, size_line >>

\* output_size = os.path.getsize(output_path); advance=5
GetSize(c) ==
    /\ pc[c] = "getsize"
    /\ IF files[Val(output_path[c])] # 0
       THEN /\ \E n \in Sizes :
                  output_size' = [output_size EXCEPT ![c] = Some(n)]
            /\ Advance(c, 5)
            /\ Goto(c, "summary")
       ELSE /\ UNCHANGED << output_size, completed >>
            /\ Raise(c, "getsize")
    /\ UNCHANGED << request, f, svg_size, background, convert_params,
                    rasterCalls, png_data, img, output_path, out, created,
                    size_line, files >>

\* the summary, and the size-change line
Summary(c) ==
    /\ pc[c] = "summary"
    /\ LET compression_ratio ==
               CompressionRatio(Val(output_size[c]), Val(svg_size[c]))
       IN IF compression_ratio[1] = "float"
          THEN /\ size_line' = [size_line EXCEPT
                                  ![c] = Some(Positive(compression_ratio))]
               /\ Goto(c, "return")
          ELSE /\ size_line' = size_line
               /\ Raise(c, compression_ratio[1])
    /\ UNCHANGED << request, completed, f, svg_size, background,
                    convert_params, rasterCalls, png_data, img, output_path,
                    out, created, output_size, files >>

\* return output_path
Return(c) ==
    /\ pc[c] = "return"
    /\ pc' = [pc EXCEPT ![c] = "done"]
    /\ result' = [result EXCEPT ![c] = <<"return", Val(output_path[c])>>]
    /\ UNCHANGED << request, completed, f, svg_size, background,
                    convert_params, rasterCalls, png_data, img, output_path,
                    out, created, output_size, size_line, files >>

Next ==
    \E c \in Calls :
        \/ Validate(c)
        \/ BeginRead(c)
        \/ OpenInput(c)
        \/ ReadInput(c)
        \/ CloseInput(c)
        \/ Parse(c)
        \/ Configure(c)
        \/ RenderStart(c)
        \/ Render(c)
        \/ PostProcess(c)
        \/ SaveStart(c)
        \/ Mktemp(c)
        \/ SaveOpen(c)
        \/ SaveWrite(c)
        \/ GetSize(c)
        \/ Summary(c)
        \/ Return(c)

Spec == Init /\ [][Next]_vars

SpecConcurrent == InitConcurrent /\ [][Next]_vars

\* ------------------------------------------------------------- properties

\* The parameter set has been built (it is built once, before the
\* rasterizer is invoked, and never changed).
Configured(c) == pc[c] \in {"render_start", "render"} \/ rasterCalls[c] > 0

Keys(c) == DOMAIN convert_params[c]

RenderFailed(c) == result[c] = <<"raise", "svg2png">>

ReadFailed(c) ==
    result[c] = <<"raise", "open">> \/ result[c] = <<"raise", "read">>

NoOutputOf(c) == \A p \in Paths : files[p] # c

\* C1: the sizing keys follow the precedence scale > (width or height) >
\* none.  With scale set the parameter set holds scale and neither
\* output_width nor output_height; with scale absent it holds output_width
\* exactly when width is set and output_height exactly when height is set.
SizingPrecedence ==
    \A c \in Calls :
        Configured(c) =>
            LET r == request[c]
            IN /\ r.scale # None =>
                    /\ "scale" \in Keys(c)
                    /\ convert_params[c]["scale"] = Val(r.scale)
                    /\ "output_width" \notin Keys(c)
                    /\ "output_height" \notin Keys(c)
               /\ r.scale = None =>
                    /\ "scale" \notin Keys(c)
                    /\ "output_width" \in Keys(c) <=> r.width # None
                    /\ "output_height" \in Keys(c) <=> r.height # None
                    /\ r.width # None =>
                          convert_params[c]["output_width"] = Val(r.width)
                    /\ r.height # None =>
                          convert_params[c]["output_height"] = Val(r.height)

\* The rasterizer was invoked for a call that set scale, width and height.
SizingPrecedenceWitness ==
    \E c \in Calls :
        /\ rasterCalls[c] > 0
        /\ request[c].scale # None
        /\ request[c].width # None
        /\ request[c].height # None
        /\ "scale" \in Keys(c)

\* C2: background_color is left out of the parameter set exactly when it
\* equals "transparent" compared case-insensitively, and is otherwise passed
\* through unchanged.
BackgroundPassedThrough ==
    \A c \in Calls :
        Configured(c) =>
            LET bg == request[c].background_color
            IN IF Lower(bg) = transparent
               THEN "background_color" \notin Keys(c)
               ELSE /\ "background_color" \in Keys(c)
                    /\ convert_params[c]["background_color"] = bg

\* C3: a failed rasterization is fatal: the rasterizer was invoked once, the
\* decode, the temp-path allocation and the write were not reached, and the
\* call left no output file.  The rasterizer is never invoked twice.
RenderFailureFatal ==
    \A c \in Calls :
        /\ rasterCalls[c] <= 1
        /\ RenderFailed(c) =>
              /\ pc[c] = "raised"
              /\ rasterCalls[c] = 1
              /\ png_data[c] = "unset"
              /\ img[c] = "unset"
              /\ output_path[c] = None
              /\ out[c] = "unopened"
              /\ NoOutputOf(c)

\* A call whose rasterization failed.
RenderFailureWitness ==
    \E c \in Calls : RenderFailed(c) /\ rasterCalls[c] = 1

\* C4: when the input cannot be read the call fails at once: the rasterizer
\* is not invoked, no temporary path is allocated, no output is produced;
\* the rasterizer is only ever invoked on bytes that were read.
ReadFailureFatal ==
    \A c \in Calls :
        /\ ReadFailed(c) =>
              /\ pc[c] = "raised"
              /\ rasterCalls[c] = 0
              /\ output_path[c] = None
              /\ out[c] = "unopened"
              /\ NoOutputOf(c)
        /\ (rasterCalls[c] > 0 \/ output_path[c] # None) =>
              svg_size[c] # None

\* A call whose input file could not be opened.
ReadFailureWitness ==
    \E c \in Calls : result[c] = <<"raise", "open">> /\ f[c] = "unopened"

\* C5: the core runs only on arguments within the declared bounds, and a
\* call is rejected only when an argument is outside them: width and height
\* in 1..10000, scale in 0.1..10.0, dpi in 72..600, bounds included.
WithinDeclaredBounds(r) ==
    /\ r.width = None \/ Val(r.width) \in WidthMin..WidthMax
    /\ r.height = None \/ Val(r.height) \in HeightMin..HeightMax
    /\ r.scale = None \/ Val(r.scale) \in ScaleMin..ScaleMax
    /\ r.dpi \in DpiMin..DpiMax

OnlyInRangeReachesCore ==
    \A c \in Calls :
        /\ pc[c] = "rejected" =>
              /\ ~ WithinDeclaredBounds(request[c])
              /\ completed[c] = 0
              /\ f[c] = "unopened"
              /\ rasterCalls[c] = 0
        /\ pc[c] \notin {"pending", "rejected"} =>
              WithinDeclaredBounds(request[c])

\* The rasterizer was invoked with dpi at its lower bound.
BoundaryReachesCoreWitness ==
    \E c \in Calls : rasterCalls[c] > 0 /\ request[c].dpi = DpiMin

\* C6: every call that obtains a temporary path obtains one that no other
\* call holds, and the path does not exist when the call opens it for
\* writing.
UniqueTempPath ==
    \A c \in Calls :
        /\ created[c] # None => Val(created[c])
        /\ \A d \in Calls \ {c} :
              (output_path[c] # None /\ output_path[d] # None) =>
                  output_path[c] # output_path[d]

\* C7: the parameter set always holds dpi, equal to the dpi of the call.
DpiAlwaysPassed ==
    \A c \in Calls :
        Configured(c) =>
            /\ "dpi" \in Keys(c)
            /\ convert_params[c]["dpi"] = request[c].dpi

\* The rasterizer was invoked with a scale, a background and the highest dpi.
DpiAlwaysPassedWitness ==
    \E c \in Calls :
        /\ rasterCalls[c] > 0
        /\ request[c].dpi = DpiMax
        /\ "scale" \in Keys(c)
        /\ "background_color" \in Keys(c)

\* C8: the size-change line is printed exactly when the output is strictly
\* smaller than the input, and computing it never divides by zero.
SizeLineWhenSmaller ==
    \A c \in Calls :
        /\ result[c] # <<"raise", "ZeroDivisionError">>
        /\ pc[c] \in {"return", "done"} => size_line[c] # None
        /\ size_line[c] # None =>
              (Val(size_line[c]) <=> Val(output_size[c]) < Val(svg_size[c]))

\* A call that completed on an empty input, without the size-change line.
SizeLineWitness ==
    \E c \in Calls :
        /\ pc[c] = "done"
        /\ svg_size[c] = Some(0)
        /\ size_line[c] = Some(FALSE)

\* C9: the input handle is open only during the read, is closed before the
\* rasterizer is invoked and on every exit; the output file is opened only
\* after rasterization and decoding succeeded and is closed before the
\* call ends.
HandleDiscipline ==
    \A c \in Calls :
        /\ f[c] = "open" => pc[c] \in {"read", "close"}
        /\ rasterCalls[c] > 0 => f[c] = "closed"
        /\ out[c] # "unopened" => png_data[c] = "bytes" /\ img[c] = "image"
        /\ out[c] = "open" => pc[c] = "save_write"
        /\ pc[c] \in {"raised", "rejected", "done"} =>
              f[c] # "open" /\ out[c] # "open"
        /\ pc[c] = "done" => f[c] = "closed" /\ out[c] = "closed"

\* A call whose read failed after the input file was opened.
HandleDisciplineWitness ==
    \E c \in Calls : result[c] = <<"raise", "read">> /\ f[c] = "closed"

\* C10: the progress advanced never exceeds the total of 100, is exactly
\* 100 once the conversion is reported complete, and is below 100 after a
\* render failure.
ProgressWithinTotal ==
    \A c \in Calls :
        /\ completed[c] <= Total
        /\ pc[c] \in {"summary", "return", "done"} => completed[c] = Total
        /\ RenderFailed(c) => completed[c] < Total

====
